---- MODULE Spec2Model ----
(***************************************************************************)
(* The /api/convert request handler of the HTML-to-PDF converter, in the   *)
(* revisions kept in the repository:                                       *)
(*   "server.js"  one browser launched and closed per request              *)
(*   "part_002"   the puppeteer revision of part_002 (same control flow as *)
(*                server.js, settings parsed with a fallback)              *)
(*   "part_000"   one module-level browser shared by all requests, one     *)
(*                page per request, file uploads staged in a temp file     *)
(* A handler is an async function: it runs without interruption from one   *)
(* await to the next, so every action below is the code between two        *)
(* awaits (the catch and finally blocks are actions of their own, so that  *)
(* the order of the response and of the cleanup is visible in the states). *)
(* The rendering engine, the file system and the socket are the            *)
(* environment: each call to them returns one of the outcomes listed for   *)
(* it, chosen nondeterministically.                                        *)
(***************************************************************************)
EXTENDS Integers, Sequences, FiniteSets, TLC

\* Number of /api/convert requests the model follows.
NumReq == 2

Requests == 1..NumReq

Revisions == {"server.js", "part_000", "part_002"}
PerRequestBrowser == {"server.js", "part_002"}

(***************************************************************************)
(* Strings the code inspects character by character are sequences of       *)
(* characters.                                                             *)
(***************************************************************************)
startsWith(s, prefix) ==
    /\ Len(s) >= Len(prefix)
    /\ SubSeq(s, 1, Len(prefix)) = prefix

includes(s, needle) ==
    \E i \in 1..(Len(s) - Len(needle) + 1) : SubSeq(s, i, i + Len(needle) - 1) = needle

NoUrl == << >>
HttpUrl == <<"h","t","t","p",":","/","/","a">>
HttpsUrl == <<"h","t","t","p","s",":","/","/","a">>
FtpUrl == <<"f","t","p",":","/","/","x">>
HttpxUrl == <<"h","t","t","p","x">>
Urls == {NoUrl, HttpUrl, HttpsUrl, FtpUrl, HttpxUrl}

\* What the specification calls an HTTP/HTTPS url.
IsHttpUrl(u) ==
    \/ startsWith(u, <<"h","t","t","p",":","/","/">>)
    \/ startsWith(u, <<"h","t","t","p","s",":","/","/">>)

\* !x of JavaScript for the url string (undefined and "" are both NoUrl).
Falsy(s) == s = NoUrl

\* The values of req.body.type: absent, the two supported ones, another one.
Types == {"", "url", "file", "pdf"}

(***************************************************************************)
(* req.body.settings and JSON.parse.  A parsed settings object maps each   *)
(* key to its JSON value, "undefined" when the key is absent.              *)
(***************************************************************************)
DefaultSettings == [waitForLoad |-> "undefined"]
WaitSettings == [waitForLoad |-> "true"]

SettingsTexts == {"", "{bad", "{\"waitForLoad\":true}"}

\* settingsStr || '{}'
OrEmptyObject(text) == IF text = "" THEN "{}" ELSE text

JSONParse(text) ==
    CASE text = "{}" -> [ok |-> TRUE, value |-> DefaultSettings]
      [] text = "{\"waitForLoad\":true}" -> [ok |-> TRUE, value |-> WaitSettings]
      [] OTHER -> [ok |-> FALSE, value |-> DefaultSettings]

Truthy(v) == v \notin {"undefined", "false", "null", "0", ""}

(***************************************************************************)
(* The request bodies a client can send.  The url is left out of file      *)
(* requests and the upload out of the others: neither is read there.       *)
(***************************************************************************)
WellFormed(b) ==
    \/ b.type = "url" /\ b.url = HttpUrl /\ ~b.hasFile
    \/ b.type = "file" /\ b.url = NoUrl /\ b.hasFile

Bodies ==
    {b \in [type : Types, url : Urls, settings : SettingsTexts,
            hasFile : BOOLEAN] :
        /\ b.type \in {"", "file"} => b.url = NoUrl
        /\ b.type = "pdf" => b.url \in {NoUrl, HttpUrl}
        /\ b.type # "file" => ~b.hasFile
        /\ b.settings # "" => WellFormed(b)
        /\ b.settings = "{\"waitForLoad\":true}" => b.type = "url"}

\* The well-formed requests: a supported type with its url or its upload,
\* and settings that parse.
ValidBodies ==
    {b \in Bodies : WellFormed(b) /\ JSONParse(OrEmptyObject(b.settings)).ok}

(***************************************************************************)
(* Errors, named by the message they carry.                                *)
(***************************************************************************)
\* error.message of each error, by the name the model gives the error.
message(e) ==
    CASE e = "SyntaxError" ->  \* Unexpected token b in JSON
        <<"U","n","e","x","p","e","c","t","e","d"," ","t","o","k","e","n",
        " ","b"," ","i","n"," ","J","S","O","N">>
      [] e = "LaunchFailed" ->  \* Failed to launch the browser process!
        <<"F","a","i","l","e","d"," ","t","o"," ","l","a","u","n","c","h",
        " ","t","h","e"," ","b","r","o","w","s","e","r"," ","p","r","o",
        "c","e","s","s","!">>
      [] e = "TargetClosed" ->  \* Protocol error: Target closed.
        <<"P","r","o","t","o","c","o","l"," ","e","r","r","o","r",":"," ",
        "T","a","r","g","e","t"," ","c","l","o","s","e","d",".">>
      [] e = "NameNotResolved" ->  \* net::ERR_NAME_NOT_RESOLVED at http://a
        <<"n","e","t",":",":","E","R","R","_","N","A","M","E","_","N","O",
        "T","_","R","E","S","O","L","V","E","D"," ","a","t"," ","h","t",
        "t","p",":","/","/","a">>
      [] e = "ConnectionRefused" ->  \* net::ERR_CONNECTION_REFUSED at http://a
        <<"n","e","t",":",":","E","R","R","_","C","O","N","N","E","C","T",
        "I","O","N","_","R","E","F","U","S","E","D"," ","a","t"," ","h",
        "t","t","p",":","/","/","a">>
      [] e = "NavigationTimeout" ->  \* Navigation timeout of 60000 ms exceeded
        <<"N","a","v","i","g","a","t","i","o","n"," ","t","i","m","e","o",
        "u","t"," ","o","f"," ","6","0","0","0","0"," ","m","s"," ","e",
        "x","c","e","e","d","e","d">>
      [] e = "InvalidNavigation" ->  \* Cannot navigate to invalid URL
        <<"C","a","n","n","o","t"," ","n","a","v","i","g","a","t","e"," ",
        "t","o"," ","i","n","v","a","l","i","d"," ","U","R","L">>
      [] e = "FileNotFound" ->  \* net::ERR_FILE_NOT_FOUND
        <<"n","e","t",":",":","E","R","R","_","F","I","L","E","_","N","O",
        "T","_","F","O","U","N","D">>
      [] e = "FsError" ->  \* EACCES: permission denied
        <<"E","A","C","C","E","S",":"," ","p","e","r","m","i","s","s","i",
        "o","n"," ","d","e","n","i","e","d">>
      [] e = "PrintFailed" ->  \* Printing failed
        <<"P","r","i","n","t","i","n","g"," ","f","a","i","l","e","d">>
      [] e = "WriteFailed" ->  \* write after end
        <<"w","r","i","t","e"," ","a","f","t","e","r"," ","e","n","d">>
      [] e = "InvalidUrlProvided" ->  \* Invalid URL provided
        <<"I","n","v","a","l","i","d"," ","U","R","L"," ","p","r","o","v",
        "i","d","e","d">>
      [] e = "NoFileUploaded" ->  \* No HTML file uploaded
        <<"N","o"," ","H","T","M","L"," ","f","i","l","e"," ","u","p","l",
        "o","a","d","e","d">>
      [] e = "InvalidType" ->  \* Invalid conversion type
        <<"I","n","v","a","l","i","d"," ","c","o","n","v","e","r","s","i",
        "o","n"," ","t","y","p","e">>
      [] OTHER -> << >>

Errors ==
    {"SyntaxError", "LaunchFailed", "TargetClosed", "NameNotResolved",
     "ConnectionRefused", "NavigationTimeout", "InvalidNavigation",
     "FileNotFound", "FsError", "PrintFailed", "WriteFailed",
     "InvalidUrlProvided", "NoFileUploaded", "InvalidType"}

\* The texts the catch block of part_000 looks for in error.message.
ErrNameNotResolved ==
    <<"n","e","t",":",":","E","R","R","_","N","A","M","E","_","N","O",
    "T","_","R","E","S","O","L","V","E","D">>
ErrConnectionRefused ==
    <<"n","e","t",":",":","E","R","R","_","C","O","N","N","E","C","T",
    "I","O","N","_","R","E","F","U","S","E","D">>
TimeoutText ==
    <<"t","i","m","e","o","u","t">>
InvalidUrlText ==
    <<"i","n","v","a","l","i","d"," ","U","R","L">>

\* A response body of no JSON fields; `details` is a text, empty when the
\* field is absent.
NoBody == [error |-> "", details |-> << >>]

(***************************************************************************)
(* The success response on the wire.  A JavaScript string is a sequence of *)
(* UTF-16 code units, named by the code point they belong to: an ASCII     *)
(* character, U+00E9 and U+20AC (one unit each), and the two surrogates of *)
(* U+1F600.  A Buffer is a sequence of bytes.                              *)
(***************************************************************************)
\* The longest text the model draws for a url tail, a setting or a buffer.
MaxChars == 2

CodeUnits == {"a", "U+00E9", "U+20AC", "U+D83D", "U+DE00"}

Texts == UNION {[1..n -> CodeUnits] : n \in 0..MaxChars}

ByteValues == {"%", "P"}

PdfBuffers == UNION {[1..n -> ByteValues] : n \in 0..MaxChars}

\* str.length: the number of UTF-16 code units.
length(str) == Len(str)

\* Buffer.byteLength(str, 'utf8'): a surrogate pair is one code point of 4
\* bytes, a lone surrogate is encoded as U+FFFD (3 bytes).
RECURSIVE byteLength(_)
byteLength(str) ==
    IF str = << >> THEN 0
    ELSE IF str[1] = "U+D83D" /\ Len(str) >= 2 /\ str[2] = "U+DE00"
    THEN 4 + byteLength(SubSeq(str, 3, Len(str)))
    ELSE (CASE str[1] \in {"U+D83D", "U+DE00", "U+20AC"} -> 3
            [] str[1] = "U+00E9" -> 2
            [] OTHER -> 1) + byteLength(Tail(str))

\* str.substring(0, end)
substring(str, end) == SubSeq(str, 1, IF Len(str) < end THEN Len(str) ELSE end)

\* part_002, placeholder revision: generateSimplePDF(content, settings).
\* The fixed text of the template is shortened to its first characters;
\* the content and the page size are the parts that vary.
generateSimplePDF(content, pageSize) ==
    <<"%","P","D","F","-">> \o substring(content, 50) \o <<".",".",".">>
        \o (IF pageSize = << >> THEN <<"A","4">> ELSE pageSize)
        \o <<"%","%","E","O","F">>

\* The number of bytes res.send writes for a chunk.
ChunkBytes(chunk) ==
    IF chunk.buffer THEN Len(chunk.data) ELSE byteLength(chunk.data)

\* A res.send that writes the chunk under the headers as they are.
sendAsIs(headers, chunk) ==
    [sent |-> TRUE, contentLength |-> headers.contentLength,
     bytes |-> ChunkBytes(chunk)]

\* res.send(chunk) of Express: it sets Content-Length itself, to the length
\* of a Buffer or to the UTF-8 byte length of a string, before it writes.
send(headers, chunk) ==
    [sent |-> TRUE, contentLength |-> ChunkBytes(chunk),
     bytes |-> ChunkBytes(chunk)]

\* The revision of part_002 that answers with a placeholder PDF.
Placeholder == "part_002 placeholder"

\* No success response is being written.
NoWire ==
    [url |-> << >>, pageSize |-> << >>, pdfBuffer |-> << >>,
     set |-> 0, sent |-> FALSE, contentLength |-> 0, bytes |-> 0]

(***************************************************************************)
(* The upload middleware (multer).  A file part has the name of its form   *)
(* field, a content type and a file name.                                  *)
(***************************************************************************)
\* The most file parts a request of the model carries.
MaxParts == 2

FieldNames == {"htmlFile", "htmlFile0"}
MimeTypes == {"text/html", "application/xhtml+xml", "image/png"}
FileNames ==
    {<<"a",".","h","t","m","l">>, <<"A",".","H","T","M">>, <<"a",".","p","n","g">>}

Parts == [fieldname : FieldNames, mimetype : MimeTypes, originalname : FileNames]

Uploads == UNION {[1..n -> Parts] : n \in 0..MaxParts}

toLowerCase(str) ==
    [i \in DOMAIN str |->
        CASE str[i] = "A" -> "a"
          [] str[i] = "H" -> "h"
          [] str[i] = "T" -> "t"
          [] str[i] = "M" -> "m"
          [] str[i] = "L" -> "l"
          [] OTHER -> str[i]]

endsWith(str, suffix) ==
    /\ Len(str) >= Len(suffix)
    /\ SubSeq(str, Len(str) - Len(suffix) + 1, Len(str)) = suffix

\* part_000: the fileFilter of the upload: TRUE for cb(null, true), FALSE
\* for cb(new Error('Only HTML files are allowed')).
fileFilter(file) ==
    \/ file.mimetype = "text/html"
    \/ file.mimetype = "application/xhtml+xml"
    \/ endsWith(toLowerCase(file.originalname), <<".","h","t","m","l">>)
    \/ endsWith(toLowerCase(file.originalname), <<".","h","t","m">>)

\* part_000: upload.single('htmlFile').  The parts are taken in order: a
\* part under another field, or a second part under htmlFile, is a
\* MulterError (LIMIT_UNEXPECTED_FILE); a part the fileFilter turns down is
\* the filter's Error.  `file` is the index of the part in req.file.
uploadSingle(parts) ==
    IF parts = << >> THEN [err |-> "none", file |-> 0]
    ELSE IF parts[1].fieldname # "htmlFile"
    THEN [err |-> "LIMIT_UNEXPECTED_FILE", file |-> 0]
    ELSE IF ~fileFilter(parts[1])
    THEN [err |-> "Only HTML files are allowed", file |-> 0]
    ELSE IF Len(parts) > 1
    THEN [err |-> "LIMIT_UNEXPECTED_FILE", file |-> 0]
    ELSE [err |-> "none", file |-> 1]

\* server.js, part_002: upload.any() takes every part, and the handler
\* reads req.files[0].
uploadAny(parts) ==
    [err |-> "none", file |-> IF Len(parts) > 0 THEN 1 ELSE 0]

MulterErrors == {"LIMIT_UNEXPECTED_FILE", "LIMIT_FILE_SIZE"}

\* part_000: the error-handling middleware: the status it answers with.
errorStatus(err) == IF err \in MulterErrors THEN 400 ELSE 500

\* No upload is on its way.
NoUpload ==
    [parts |-> << >>, stage |-> "none", file |-> 0, status |-> 0, error |-> "none"]

(***************************************************************************)
(* The settings translator: the pdfOptions each revision builds from the   *)
(* parsed settings.  A value is written as its JSON text ("true" is the    *)
(* boolean, "'yes'" a string) except for pageSize, orientation and         *)
(* margins, whose values are the strings themselves; "undefined" is an     *)
(* absent key.                                                             *)
(***************************************************************************)
PageSizes == {"undefined", "", "A4", "Letter", "Legal", "Tabloid", "A3"}
Orientations == {"undefined", "portrait", "landscape"}
MarginNames == {"undefined", "none", "small", "medium", "large", "huge"}
Backgrounds == {"undefined", "true", "false", "'yes'"}

TranslatorSettings ==
    [pageSize : PageSizes, orientation : Orientations, margins : MarginNames,
     includeBackground : Backgrounds]

\* a || b
Or(a, b) == IF Truthy(a) THEN a ELSE b

\* server.js: mapMargin
mapMargin(marginSetting) ==
    CASE marginSetting = "none" -> "0px"
      [] marginSetting = "small" -> "20px"
      [] marginSetting = "large" -> "50px"
      [] OTHER -> "30px"

\* part_002: mapMargin
mapMargin002(marginName) ==
    CASE marginName = "none" -> "0px"
      [] marginName = "small" -> "15px"
      [] marginName = "large" -> "50px"
      [] OTHER -> "25px"

\* part_000: the tables.
marginMap ==
    [none |-> "0", small |-> "0.5in", medium |-> "1in", large |-> "2in"]

pageSizeMap ==
    [A4 |-> [width |-> "8.27in", height |-> "11.69in"],
     Letter |-> [width |-> "8.5in", height |-> "11in"],
     Legal |-> [width |-> "8.5in", height |-> "14in"],
     Tabloid |-> [width |-> "11in", height |-> "17in"]]

\* marginMap[settings.margins] || marginMap.small: every entry of the table
\* is a non-empty string, so the right operand is taken exactly for the
\* names the table does not have.
marginOf(name) ==
    IF name \in DOMAIN marginMap THEN marginMap[name] ELSE marginMap.small

Uniform(m) == [top |-> m, right |-> m, bottom |-> m, left |-> m]

\* server.js: const pdfOptions = {...}
pdfOptionsServer(st) ==
    [format |-> Or(st.pageSize, "A4"),
     width |-> "undefined", height |-> "undefined",
     landscape |-> (st.orientation = "landscape"),
     printBackground |-> Or(st.includeBackground, "false"),
     margin |-> Uniform(mapMargin(st.margins))]

\* part_002: const pdfOptions = {...}
pdfOptions002(st) ==
    [format |-> Or(st.pageSize, "A4"),
     width |-> "undefined", height |-> "undefined",
     landscape |-> (st.orientation = "landscape"),
     printBackground |-> IF st.includeBackground = "true" THEN "true" ELSE "false",
     margin |-> Uniform(mapMargin002(st.margins))]

\* part_000: const pdfOptions = {...}, then the custom page size.
pdfOptions000(st) ==
    LET named == st.pageSize \in DOMAIN pageSizeMap IN
    [format |-> IF named THEN "undefined" ELSE Or(st.pageSize, "A4"),
     width |-> IF named THEN pageSizeMap[st.pageSize].width ELSE "undefined",
     height |-> IF named THEN pageSizeMap[st.pageSize].height ELSE "undefined",
     landscape |-> (st.orientation = "landscape"),
     printBackground |-> Or(st.includeBackground, "false"),
     margin |-> Uniform(marginOf(st.margins))]

pdfOptionsOf(rv, st) ==
    CASE rv = "server.js" -> pdfOptionsServer(st)
      [] rv = "part_002" -> pdfOptions002(st)
      [] OTHER -> pdfOptions000(st)

EmptySettings ==
    [pageSize |-> "undefined", orientation |-> "undefined",
     margins |-> "undefined", includeBackground |-> "undefined"]

NoOptions ==
    [format |-> "undefined", width |-> "undefined", height |-> "undefined",
     landscape |-> FALSE, printBackground |-> "undefined",
     margin |-> Uniform("undefined")]

\* No settings object is being translated.
NoTranslation ==
    [settings |-> EmptySettings, built |-> FALSE, pdfOptions |-> NoOptions]

VARIABLES
    rev,          \* the revision that is deployed
    req,          \* per request: the handler's position, locals and response
    browser,      \* part_000: the module-level `browser` (0: undefined)
    launchCalls,  \* number of puppeteer.launch calls made for requests
    nBrowsers,    \* number of browser instances launched so far
    openBrowsers, \* the browser instances launched and not closed
    pages,        \* page id -> [creator, open, content]
    files,        \* temp-file path -> the request whose HTML it holds
    now,          \* the last value Date.now() returned
    proc,         \* the process: where its startup or shutdown stands
    translator,   \* a settings object and the pdfOptions built from it
    upload,       \* a multipart upload on its way through the upload middleware
    wire          \* a success response: what is sent and its Content-Length

vars == <<rev, req, browser, launchCalls, nBrowsers, openBrowsers, pages, files,
          now, proc, translator, upload, wire>>

\* A request that has not arrived yet.
NoReq ==
    [pc |-> "idle", type |-> "", url |-> NoUrl, settings |-> "", hasFile |-> FALSE,
     browser |-> 0, page |-> 0, tempFilePath |-> 0, pdfBuffer |-> "none",
     error |-> "none",
     sent |-> "none", status |-> 0, body |-> NoBody, lateWrites |-> 0,
     closes |-> 0, unlinks |-> 0, logged |-> {}, rejected |-> FALSE]

Arrived(b) ==
    [NoReq EXCEPT !.type = b.type, !.url = b.url, !.settings = b.settings,
                  !.hasFile = b.hasFile]

Settings(q) == JSONParse(OrEmptyObject(q.settings)).value

\* throw inside the try block: control goes to the catch block.
Throw(q, e) == [q EXCEPT !.pc = "catch", !.error = e]

\* The handler returns: req and the caught error go out of scope.  The
\* record keeps the response, the handles the handler held and the counts
\* of the calls it made.
Finish(q) ==
    [q EXCEPT !.pc = "done", !.type = "", !.url = NoUrl, !.settings = "",
              !.hasFile = FALSE, !.error = "none"]

\* An exception leaving the catch or the finally block: the promise of the
\* async handler is rejected once the finally block is over.
Reject(q) == [q EXCEPT !.rejected = TRUE]

\* console.error in the finally block: the failed cleanup call is logged.
Log(q, call) == [q EXCEPT !.logged = @ \cup {call}]

\* res.status(code).json({error, details}): the first write of a response
\* sends it; a write after the headers were sent throws
\* ERR_HTTP_HEADERS_SENT and changes nothing the client sees.
Json(q, code, error, details) ==
    IF q.sent = "none"
    THEN [q EXCEPT !.sent = "json", !.status = code,
                   !.body = [error |-> error, details |-> details]]
    ELSE Reject([q EXCEPT !.lateWrites = @ + 1])

\* res.setHeader(...); res.send(pdfBuffer).  The write succeeds ("ok"),
\* throws before the headers went out ("throwEarly") or after ("throwLate").
SendOutcomes == {"ok", "throwEarly", "throwLate"}

Send(q, w) ==
    LET out == [q EXCEPT !.sent = "pdf", !.status = 200,
                         !.body = NoBody]
    IN  CASE w = "ok" -> [out EXCEPT !.pc = "finally"]
          [] w = "throwEarly" -> Throw(q, "WriteFailed")
          [] OTHER -> Throw(out, "WriteFailed")

(***************************************************************************)
(* The environment: the outcomes of page.goto and page.pdf.                *)
(***************************************************************************)
\* page.goto(url): a url Chrome cannot parse is refused at once; a url it
\* can parse loads or fails in the network.
GotoOutcomes(u) ==
    IF u = NoUrl \/ u = HttpxUrl THEN {"InvalidNavigation"}
    ELSE IF IsHttpUrl(u)
         THEN {"ok", "NameNotResolved", "ConnectionRefused", "NavigationTimeout"}
         ELSE {"ok", "NameNotResolved"}

\* page.pdf(pdfOptions): a buffer with the PDF ("ok"), a buffer of length 0
\* ("empty"), or a rejection.
PdfOutcomes == {"ok", "empty", "PrintFailed"}

\* The outcomes of page.pdf that return a buffer.
Buffers == {"ok", "empty"}

(***************************************************************************)
(* part_000: the shared browser.                                           *)
(***************************************************************************)
\* A newPage that hands back the page made last, when there is one.
ReusedPage == IF pages = << >> THEN 1 ELSE Cardinality(DOMAIN pages)

\* browser.newPage() makes a new page: an id no page has had.
FreshPage == Cardinality(DOMAIN pages) + 1

\* Date.now(): the clock does not go back, and two calls in the same
\* millisecond return the same value.
DateNow == {now, now + 1}

\* app.post('/api/convert'): from the arrival of the request to the first
\* await.  launchBrowser() runs up to its own await: the test of the
\* module-level `browser` and the call of puppeteer.launch.
Convert000(r, b) ==
    /\ rev = "part_000"
    /\ req[r].pc = "idle"
    /\ LET q == Arrived(b) IN
       IF ~JSONParse(OrEmptyObject(b.settings)).ok
       THEN /\ req' = [req EXCEPT ![r] = Throw(q, "SyntaxError")]
            /\ UNCHANGED launchCalls
       ELSE IF b.type = "" \/ (b.type = "url" /\ Falsy(b.url))
       THEN /\ req' = [req EXCEPT ![r] =
                  [Json(q, 400, "Missing required parameters", << >>)
                       EXCEPT !.pc = "finally"]]
            /\ UNCHANGED launchCalls
       ELSE IF b.type = "file" /\ ~b.hasFile
       THEN /\ req' = [req EXCEPT ![r] =
                  [Json(q, 400, "No HTML file uploaded", << >>)
                       EXCEPT !.pc = "finally"]]
            /\ UNCHANGED launchCalls
       ELSE IF browser = 0
       THEN /\ req' = [req EXCEPT ![r] = [q EXCEPT !.pc = "launch"]]
            /\ launchCalls' = launchCalls + 1
       ELSE /\ req' = [req EXCEPT ![r] =
                  [q EXCEPT !.pc = "newPage", !.browser = browser]]
            /\ UNCHANGED launchCalls
    /\ UNCHANGED <<rev, browser, nBrowsers, openBrowsers, pages, files, now>>

\* launchBrowser after its await: puppeteer.launch returned.  The new
\* instance is stored in the module-level `browser` and returned.
LaunchBrowserReturn(r, ok) ==
    /\ rev = "part_000"
    /\ req[r].pc = "launch"
    /\ IF ok
       THEN LET id == nBrowsers + 1 IN
            /\ browser' = id
            /\ nBrowsers' = id
            /\ openBrowsers' = openBrowsers \cup {id}
            /\ req' = [req EXCEPT ![r] =
                  [@ EXCEPT !.pc = "newPage", !.browser = id]]
       ELSE /\ req' = [req EXCEPT ![r] = Throw(@, "LaunchFailed")]
            /\ UNCHANGED <<browser, nBrowsers, openBrowsers>>
    /\ UNCHANGED <<rev, launchCalls, pages, files, now>>

\* page = await browser.newPage(); then page.setViewport is called.
NewPageReturn000(r, ok) ==
    /\ rev = "part_000"
    /\ req[r].pc = "newPage"
    /\ IF ok
       THEN LET p == FreshPage IN
            /\ pages' = (p :> [creator |-> r, open |-> TRUE, content |-> 0])
                            @@ pages
            /\ req' = [req EXCEPT ![r] =
                  [@ EXCEPT !.pc = "setViewport", !.page = p]]
       ELSE /\ req' = [req EXCEPT ![r] = Throw(@, "TargetClosed")]
            /\ UNCHANGED pages
    /\ UNCHANGED <<rev, browser, launchCalls, nBrowsers, openBrowsers, files, now>>

\* page.setViewport returned.  A file request chooses its temp-file path
\* from the clock and calls fs.mkdir; the others call page.goto(url).
SetViewportReturn(r, ok) ==
    /\ rev = "part_000"
    /\ req[r].pc = "setViewport"
    /\ IF ~ok
       THEN /\ req' = [req EXCEPT ![r] = Throw(@, "TargetClosed")]
            /\ UNCHANGED now
       ELSE IF req[r].type = "file"
       THEN \E t \in DateNow :
               /\ now' = t
               /\ req' = [req EXCEPT ![r] =
                     [@ EXCEPT !.pc = "mkdir", !.tempFilePath = t]]
       ELSE /\ req' = [req EXCEPT ![r] = [@ EXCEPT !.pc = "goto"]]
            /\ UNCHANGED now
    /\ UNCHANGED <<rev, browser, launchCalls, nBrowsers, openBrowsers, pages, files>>

\* fs.mkdir returned; fs.writeFile is called.
MkdirReturn(r, ok) ==
    /\ rev = "part_000"
    /\ req[r].pc = "mkdir"
    /\ req' = [req EXCEPT ![r] =
          IF ok THEN [@ EXCEPT !.pc = "writeFile"] ELSE Throw(@, "FsError")]
    /\ UNCHANGED <<rev, browser, launchCalls, nBrowsers, openBrowsers, pages,
                   files, now>>

\* fs.writeFile returned: the file holds this request's HTML;
\* page.goto(file://tempFilePath) is called.
WriteFileReturn(r, ok) ==
    /\ rev = "part_000"
    /\ req[r].pc = "writeFile"
    /\ IF ok
       THEN /\ files' = (req[r].tempFilePath :> r) @@ files
            /\ req' = [req EXCEPT ![r] = [@ EXCEPT !.pc = "goto"]]
       ELSE /\ req' = [req EXCEPT ![r] = Throw(@, "FsError")]
            /\ UNCHANGED files
    /\ UNCHANGED <<rev, browser, launchCalls, nBrowsers, openBrowsers, pages, now>>

\* What page.goto can return for request q: a file request loads the file
\* at its temp path, which has to exist.
GotoOutcomes000(q) ==
    IF q.type = "file"
    THEN IF q.tempFilePath \in DOMAIN files
         THEN {"ok", "NavigationTimeout"}
         ELSE {"FileNotFound"}
    ELSE GotoOutcomes(q.url)

\* The HTML a page has after a successful page.goto, named by the request
\* it came from: the writer of the temp file, or the request itself.
Loaded000(q, r) == IF q.type = "file" THEN files[q.tempFilePath] ELSE r

\* page.goto returned; then page.waitForTimeout(2000) if settings.waitForLoad,
\* else the options are built and page.pdf is called.
GotoReturn000(r, res) ==
    /\ rev = "part_000"
    /\ req[r].pc = "goto"
    /\ res \in GotoOutcomes000(req[r])
    /\ IF res = "ok"
       THEN /\ pages' = [pages EXCEPT ![req[r].page].content =
                            Loaded000(req[r], r)]
            /\ req' = [req EXCEPT ![r] =
                  [@ EXCEPT !.pc =
                       IF Truthy(Settings(req[r]).waitForLoad)
                       THEN "waitForTimeout" ELSE "pdf"]]
       ELSE /\ req' = [req EXCEPT ![r] = Throw(@, res)]
            /\ UNCHANGED pages
    /\ UNCHANGED <<rev, browser, launchCalls, nBrowsers, openBrowsers, files, now>>

\* page.waitForTimeout(2000) returned; page.pdf is called.
WaitForTimeoutReturn(r, ok) ==
    /\ rev = "part_000"
    /\ req[r].pc = "waitForTimeout"
    /\ req' = [req EXCEPT ![r] =
          IF ok THEN [@ EXCEPT !.pc = "pdf"] ELSE Throw(@, "TargetClosed")]
    /\ UNCHANGED <<rev, browser, launchCalls, nBrowsers, openBrowsers, pages,
                   files, now>>

\* page.pdf returned; the headers are set and the PDF is sent.
PdfReturn000(r, res, w) ==
    /\ rev = "part_000"
    /\ req[r].pc = "pdf"
    /\ res \in PdfOutcomes
    /\ w \in SendOutcomes
    /\ res # "ok" => w = "ok"
    /\ req' = [req EXCEPT ![r] =
          IF res \in Buffers
          THEN Send([@ EXCEPT !.pdfBuffer = res], w)
          ELSE Throw(@, res)]
    /\ UNCHANGED <<rev, browser, launchCalls, nBrowsers, openBrowsers, pages,
                   files, now>>

\* The user-friendly message the catch block chooses from error.message.
errorMessage(e) ==
    IF includes(message(e), ErrNameNotResolved)
    THEN "Website not found. Please check the URL and try again."
    ELSE IF includes(message(e), ErrConnectionRefused)
    THEN "Cannot connect to website. The site may be down or blocking access."
    ELSE IF includes(message(e), TimeoutText)
    THEN "Conversion timed out. The website may be too large or loading slowly."
    ELSE IF includes(message(e), InvalidUrlText)
    THEN "Invalid URL. Please enter a valid website address."
    ELSE "Conversion failed"

\* The catch block: res.status(500).json({ error: errorMessage }).
Catch000(r) ==
    /\ rev = "part_000"
    /\ req[r].pc = "catch"
    /\ req' = [req EXCEPT ![r] =
          [Json(@, 500, errorMessage(req[r].error), << >>)
               EXCEPT !.pc = "finally"]]
    /\ UNCHANGED <<rev, browser, launchCalls, nBrowsers, openBrowsers, pages,
                   files, now>>

\* The finally block up to its first await: page.close() if a page was
\* created, else fs.unlink(tempFilePath) if a path was chosen.
Finally000(r) ==
    /\ rev = "part_000"
    /\ req[r].pc = "finally"
    /\ req' = [req EXCEPT ![r] =
          IF @.page # 0 THEN [@ EXCEPT !.pc = "close", !.closes = @ + 1]
          ELSE IF @.tempFilePath # 0
               THEN [@ EXCEPT !.pc = "unlink", !.unlinks = @ + 1]
               ELSE Finish(@)]
    /\ UNCHANGED <<rev, browser, launchCalls, nBrowsers, openBrowsers, pages,
                   files, now>>

\* A finally block that awaits page.close() without .catch: a rejected
\* close leaves the block before fs.unlink is called.
PageCloseThrows(r, ok) ==
    /\ rev = "part_000"
    /\ req[r].pc = "close"
    /\ pages' = IF ok THEN [pages EXCEPT ![req[r].page].open = FALSE,
                                         ![req[r].page].content = 0]
                ELSE pages
    /\ req' = [req EXCEPT ![r] =
          IF ~ok THEN Finish(Reject(@))
          ELSE IF @.tempFilePath # 0
               THEN [@ EXCEPT !.pc = "unlink", !.unlinks = @ + 1]
               ELSE Finish(@)]
    /\ UNCHANGED <<rev, browser, launchCalls, nBrowsers, openBrowsers, files, now>>

\* page.close() returned: the page and what it had loaded are gone, or the
\* call was rejected and the rejection logged by .catch(console.error).
\* Then fs.unlink(tempFilePath) is called if a path was chosen.
PageCloseReturn(r, ok) ==
    /\ rev = "part_000"
    /\ req[r].pc = "close"
    /\ pages' = IF ok THEN [pages EXCEPT ![req[r].page].open = FALSE,
                                         ![req[r].page].content = 0]
                ELSE pages
    /\ LET q == IF ok THEN req[r] ELSE Log(req[r], "close") IN
       req' = [req EXCEPT ![r] =
          IF q.tempFilePath # 0
          THEN [q EXCEPT !.pc = "unlink", !.unlinks = @ + 1]
          ELSE Finish(q)]
    /\ UNCHANGED <<rev, browser, launchCalls, nBrowsers, openBrowsers, files, now>>

\* The files left when fs.unlink(path) succeeds.
Unlinked(path) == [p \in DOMAIN files \ {path} |-> files[p]]

\* fs.unlink returned; a failure (no such file, or an I/O error that leaves
\* the file in place) is logged.
UnlinkReturn(r, ok) ==
    /\ rev = "part_000"
    /\ req[r].pc = "unlink"
    /\ ok => req[r].tempFilePath \in DOMAIN files
    /\ files' = IF ok THEN Unlinked(req[r].tempFilePath) ELSE files
    /\ req' = [req EXCEPT ![r] =
          Finish(IF ok THEN @ ELSE Log(@, "unlink"))]
    /\ UNCHANGED <<rev, browser, launchCalls, nBrowsers, openBrowsers, pages, now>>

(***************************************************************************)
(* server.js and the puppeteer revision of part_002: a browser per request.*)
(***************************************************************************)
\* server.js: const settings = JSON.parse(settingsStr || '{}'), which throws
\* on malformed text.
parseSettings(text) == JSONParse(OrEmptyObject(text))

\* part_002: the same inside try/catch; a failed parse leaves settings = {}.
parseSettings002(text) ==
    [ok |-> TRUE, value |-> JSONParse(OrEmptyObject(text)).value]

Parse(rv, text) ==
    IF rv = "part_002" THEN parseSettings002(text) ELSE parseSettings(text)

\* app.post('/api/convert') up to the first await: the settings are parsed
\* and puppeteer.launch is called.
Convert(r, b) ==
    /\ rev \in PerRequestBrowser
    /\ req[r].pc = "idle"
    /\ IF ~Parse(rev, b.settings).ok
       THEN /\ req' = [req EXCEPT ![r] = Throw(Arrived(b), "SyntaxError")]
            /\ UNCHANGED launchCalls
       ELSE /\ req' = [req EXCEPT ![r] = [Arrived(b) EXCEPT !.pc = "launch"]]
            /\ launchCalls' = launchCalls + 1
    /\ UNCHANGED <<rev, browser, nBrowsers, openBrowsers, pages, files, now>>

\* browser = await puppeteer.launch(...); browser.newPage() is called.
LaunchReturn(r, ok) ==
    /\ rev \in PerRequestBrowser
    /\ req[r].pc = "launch"
    /\ IF ok
       THEN LET id == nBrowsers + 1 IN
            /\ nBrowsers' = id
            /\ openBrowsers' = openBrowsers \cup {id}
            /\ req' = [req EXCEPT ![r] =
                  [@ EXCEPT !.pc = "newPage", !.browser = id]]
       ELSE /\ req' = [req EXCEPT ![r] = Throw(@, "LaunchFailed")]
            /\ UNCHANGED <<nBrowsers, openBrowsers>>
    /\ UNCHANGED <<rev, browser, launchCalls, pages, files, now>>

\* "2. Load Content", entered with the page just created: the checks of
\* the type, the url and the upload, and the call of page.goto or
\* page.setContent.
LoadContent(q) ==
    IF q.type = "url"
    THEN IF Falsy(q.url) \/ ~startsWith(q.url, <<"h","t","t","p">>)
         THEN Throw(q, "InvalidUrlProvided")
         ELSE [q EXCEPT !.pc = "goto"]
    ELSE IF q.type = "file"
    THEN IF ~q.hasFile
         THEN Throw(q, "NoFileUploaded")
         ELSE [q EXCEPT !.pc = "setContent"]
    ELSE Throw(q, "InvalidType")

\* const page = await browser.newPage(); then the content is loaded.
NewPageReturn(r, ok) ==
    /\ rev \in PerRequestBrowser
    /\ req[r].pc = "newPage"
    /\ IF ok
       THEN LET p == FreshPage IN
            /\ pages' = (p :> [creator |-> r, open |-> TRUE, content |-> 0])
                            @@ pages
            /\ req' = [req EXCEPT ![r] = LoadContent([@ EXCEPT !.page = p])]
       ELSE /\ req' = [req EXCEPT ![r] = Throw(@, "TargetClosed")]
            /\ UNCHANGED pages
    /\ UNCHANGED <<rev, browser, launchCalls, nBrowsers, openBrowsers, files, now>>

\* page.goto(url) returned; the options are built and page.pdf is called.
GotoReturn(r, res) ==
    /\ rev \in PerRequestBrowser
    /\ req[r].pc = "goto"
    /\ res \in GotoOutcomes(req[r].url)
    /\ IF res = "ok"
       THEN /\ pages' = [pages EXCEPT ![req[r].page].content = r]
            /\ req' = [req EXCEPT ![r] = [@ EXCEPT !.pc = "pdf"]]
       ELSE /\ req' = [req EXCEPT ![r] = Throw(@, res)]
            /\ UNCHANGED pages
    /\ UNCHANGED <<rev, browser, launchCalls, nBrowsers, openBrowsers, files, now>>

\* page.setContent(htmlContent) returned; page.pdf is called.
SetContentReturn(r, ok) ==
    /\ rev \in PerRequestBrowser
    /\ req[r].pc = "setContent"
    /\ IF ok
       THEN /\ pages' = [pages EXCEPT ![req[r].page].content = r]
            /\ req' = [req EXCEPT ![r] = [@ EXCEPT !.pc = "pdf"]]
       ELSE /\ req' = [req EXCEPT ![r] = Throw(@, "NavigationTimeout")]
            /\ UNCHANGED pages
    /\ UNCHANGED <<rev, browser, launchCalls, nBrowsers, openBrowsers, files, now>>

\* page.pdf returned; the headers are set and the PDF is sent.
PdfReturn(r, res, w) ==
    /\ rev \in PerRequestBrowser
    /\ req[r].pc = "pdf"
    /\ res \in PdfOutcomes
    /\ w \in SendOutcomes
    /\ res # "ok" => w = "ok"
    /\ req' = [req EXCEPT ![r] =
          IF res \in Buffers
          THEN Send([@ EXCEPT !.pdfBuffer = res], w)
          ELSE Throw(@, res)]
    /\ UNCHANGED <<rev, browser, launchCalls, nBrowsers, openBrowsers, pages,
                   files, now>>

\* A catch block that only logs the error and leaves the response to the
\* code after the cleanup.
CatchSilent(r) ==
    /\ rev \in PerRequestBrowser
    /\ req[r].pc = "catch"
    /\ req' = [req EXCEPT ![r] = [@ EXCEPT !.pc = "finally"]]
    /\ UNCHANGED <<rev, browser, launchCalls, nBrowsers, openBrowsers, pages,
                   files, now>>

\* The catch block: if (!res.headersSent) res.status(500).json({error:
\* 'Conversion failed', details: error.message}).
Catch(r) ==
    /\ rev \in PerRequestBrowser
    /\ req[r].pc = "catch"
    /\ req' = [req EXCEPT ![r] =
          IF @.sent = "none"
          THEN [Json(@, 500, "Conversion failed", message(@.error))
                    EXCEPT !.pc = "finally"]
          ELSE [@ EXCEPT !.pc = "finally"]]
    /\ UNCHANGED <<rev, browser, launchCalls, nBrowsers, openBrowsers, pages,
                   files, now>>

\* A handler that closes the browser at the end of the try block instead
\* of in a finally block: an error skips the close.
FinallyOnSuccess(r) ==
    /\ rev \in PerRequestBrowser
    /\ req[r].pc = "finally"
    /\ req' = [req EXCEPT ![r] =
          IF @.browser # 0 /\ @.error = "none"
          THEN [@ EXCEPT !.pc = "close", !.closes = @ + 1]
          ELSE Finish(@)]
    /\ UNCHANGED <<rev, browser, launchCalls, nBrowsers, openBrowsers, pages,
                   files, now>>

\* The finally block up to its await: if (browser) browser.close().
Finally(r) ==
    /\ rev \in PerRequestBrowser
    /\ req[r].pc = "finally"
    /\ req' = [req EXCEPT ![r] =
          IF @.browser # 0 THEN [@ EXCEPT !.pc = "close", !.closes = @ + 1]
          ELSE Finish(@)]
    /\ UNCHANGED <<rev, browser, launchCalls, nBrowsers, openBrowsers, pages,
                   files, now>>

\* The pages left open when browser instance id is closed.
ClosedWith(r) ==
    [p \in DOMAIN pages |->
        IF pages[p].creator = r
        THEN [pages[p] EXCEPT !.open = FALSE, !.content = 0]
        ELSE pages[p]]

\* await browser.close() returned: the instance and its page are gone, or
\* the call was rejected and the rejection leaves the handler.
BrowserCloseReturn(r, ok) ==
    /\ rev \in PerRequestBrowser
    /\ req[r].pc = "close"
    /\ IF ok
       THEN /\ openBrowsers' = openBrowsers \ {req[r].browser}
            /\ pages' = ClosedWith(r)
            /\ req' = [req EXCEPT ![r] = Finish(@)]
       ELSE /\ req' = [req EXCEPT ![r] = Finish(Reject(@))]
            /\ UNCHANGED <<openBrowsers, pages>>
    /\ UNCHANGED <<rev, browser, launchCalls, nBrowsers, files, now>>

(***************************************************************************)
(* The specifications.                                                     *)
(***************************************************************************)
\* The process once app.listen was called: it serves requests.
Listening ==
    [state |-> "serving", testBrowser |-> 0, closing |-> 0, code |-> "none"]

Init ==
    /\ rev \in Revisions
    /\ req = [r \in Requests |-> NoReq]
    /\ browser = 0
    /\ launchCalls = 0
    /\ nBrowsers = 0
    /\ openBrowsers = {}
    /\ pages = << >>
    /\ files = << >>
    /\ now = 1
    /\ proc = Listening
    /\ translator = NoTranslation
    /\ upload = NoUpload
    /\ wire = NoWire

InFlight(r) == req[r].pc \notin {"idle", "done"}

\* Requests are numbered in the order they arrive.
NextToArrive(r) ==
    /\ req[r].pc = "idle"
    /\ \A s \in Requests : s < r => req[s].pc # "idle"

\* The outcomes of an engine or file-system call: it may fail only where
\* faults are injected.
Oks(faults) == IF faults THEN BOOLEAN ELSE {TRUE}

\* Where the handler of request r stands, in part_000 and in the
\* revisions with a browser per request.
At000(r, pc) == rev = "part_000" /\ req[r].pc = pc
At(r, pc) == rev \in PerRequestBrowser /\ req[r].pc = pc

Steps000(r, faults) ==
    \/ At000(r, "launch") /\ \E ok \in Oks(faults) : LaunchBrowserReturn(r, ok)
    \/ At000(r, "newPage") /\ \E ok \in Oks(faults) : NewPageReturn000(r, ok)
    \/ At000(r, "setViewport") /\ \E ok \in Oks(faults) : SetViewportReturn(r, ok)
    \/ At000(r, "mkdir") /\ \E ok \in Oks(faults) : MkdirReturn(r, ok)
    \/ At000(r, "writeFile") /\ \E ok \in Oks(faults) : WriteFileReturn(r, ok)
    \/ At000(r, "goto") /\ \E res \in GotoOutcomes000(req[r]) :
          /\ faults \/ res \in {"ok", "FileNotFound"}
          /\ GotoReturn000(r, res)
    \/ At000(r, "waitForTimeout") /\ \E ok \in Oks(faults) :
          WaitForTimeoutReturn(r, ok)
    \/ At000(r, "pdf") /\ \E res \in PdfOutcomes, w \in SendOutcomes :
          /\ faults \/ (res = "ok" /\ w = "ok")
          /\ PdfReturn000(r, res, w)
    \/ At000(r, "catch") /\ Catch000(r)
    \/ At000(r, "finally") /\ Finally000(r)
    \/ At000(r, "close") /\ \E ok \in Oks(faults) : PageCloseReturn(r, ok)
    \/ At000(r, "unlink") /\ \E ok \in BOOLEAN :
          /\ faults \/ ok \/ req[r].tempFilePath \notin DOMAIN files
          /\ UnlinkReturn(r, ok)

Steps(r) ==
    \/ At(r, "launch") /\ \E ok \in BOOLEAN : LaunchReturn(r, ok)
    \/ At(r, "newPage") /\ \E ok \in BOOLEAN : NewPageReturn(r, ok)
    \/ At(r, "goto") /\ \E res \in GotoOutcomes(req[r].url) : GotoReturn(r, res)
    \/ At(r, "setContent") /\ \E ok \in BOOLEAN : SetContentReturn(r, ok)
    \/ At(r, "pdf") /\ \E res \in PdfOutcomes, w \in SendOutcomes :
          PdfReturn(r, res, w)
    \/ At(r, "catch") /\ Catch(r)
    \/ At(r, "finally") /\ Finally(r)
    \/ At(r, "close") /\ \E ok \in BOOLEAN : BrowserCloseReturn(r, ok)

(***************************************************************************)
(* Spec: any revision, any request body, every call of the environment may *)
(* fail; a request arrives when the one before it has been answered.       *)
(***************************************************************************)
Quiet == \A s \in Requests : ~InFlight(s)

Next ==
    /\ \E r \in Requests :
        \/ NextToArrive(r) /\ Quiet /\ \E b \in Bodies : Convert(r, b)
        \/ NextToArrive(r) /\ Quiet /\ \E b \in Bodies : Convert000(r, b)
        \/ Steps(r)
        \/ Steps000(r, TRUE)
    /\ UNCHANGED <<proc, translator, upload, wire>>

Spec == Init /\ [][Next]_vars

(***************************************************************************)
(* SpecConc: part_000 under concurrent well-formed requests, which arrive  *)
(* at any time.  The engine and the file system fail only where the        *)
(* interleaving makes them: a temp file that is not there.                 *)
(***************************************************************************)
InitConc == Init /\ rev = "part_000"

NextConc ==
    /\ \E r \in Requests :
        \/ NextToArrive(r) /\ \E b \in ValidBodies : Convert000(r, b)
        \/ Steps000(r, FALSE)
    /\ UNCHANGED <<proc, translator, upload, wire>>

SpecConc == InitConc /\ [][NextConc]_vars

(***************************************************************************)
(* part_000: the life of the process.  startServer launches and closes a   *)
(* test browser before it calls app.listen; the SIGTERM and SIGINT         *)
(* handlers (the same code) close the module-level `browser` and exit.     *)
(* Handlers of requests keep running until the process has exited.         *)
(***************************************************************************)
Starting ==
    [state |-> "starting", testBrowser |-> 0, closing |-> 0, code |-> "none"]

\* process.exit(code)
Exit(code) == [proc EXCEPT !.state = "exited", !.code = code]

\* startServer up to its first await: puppeteer.launch for the test.
StartServer ==
    /\ proc.state = "starting"
    /\ proc' = [proc EXCEPT !.state = "testLaunch"]
    /\ UNCHANGED <<rev, req, browser, launchCalls, nBrowsers, openBrowsers,
                   pages, files, now, translator, upload, wire>>

\* const testBrowser = await puppeteer.launch(...); testBrowser.close() is
\* called.  A failed launch goes to the catch block: process.exit(1).
TestLaunchReturn(ok) ==
    /\ proc.state = "testLaunch"
    /\ IF ok
       THEN LET id == nBrowsers + 1 IN
            /\ nBrowsers' = id
            /\ openBrowsers' = openBrowsers \cup {id}
            /\ proc' = [proc EXCEPT !.state = "testClose", !.testBrowser = id]
       ELSE /\ proc' = Exit("1")
            /\ UNCHANGED <<nBrowsers, openBrowsers>>
    /\ UNCHANGED <<rev, req, browser, launchCalls, pages, files, now,
                   translator, upload, wire>>

\* await testBrowser.close() returned; app.listen is called.  A rejected
\* close goes to the catch block: process.exit(1).
TestCloseReturn(ok) ==
    /\ proc.state = "testClose"
    /\ IF ok
       THEN /\ openBrowsers' = openBrowsers \ {proc.testBrowser}
            /\ proc' = [proc EXCEPT !.state = "serving"]
       ELSE /\ proc' = Exit("1")
            /\ UNCHANGED openBrowsers
    /\ UNCHANGED <<rev, req, browser, launchCalls, nBrowsers, pages, files, now,
                   translator, upload, wire>>

\* process.on('SIGTERM') / process.on('SIGINT') up to the await:
\* if (browser) await browser.close(), else process.exit(0) at once.
Signal ==
    /\ proc.state \in {"testLaunch", "testClose", "serving"}
    /\ proc' = IF browser # 0
               THEN [proc EXCEPT !.state = "closing", !.closing = browser]
               ELSE Exit("0")
    /\ UNCHANGED <<rev, req, browser, launchCalls, nBrowsers, openBrowsers,
                   pages, files, now, translator, upload, wire>>

\* The pages left open when the browser instances in ids are closed.
ClosedWithBrowser(ids) ==
    [p \in DOMAIN pages |->
        IF pages[p].open /\ req[pages[p].creator].browser \in ids
        THEN [pages[p] EXCEPT !.open = FALSE, !.content = 0]
        ELSE pages[p]]

\* await browser.close() of the signal handler returned: process.exit(0).
\* A rejected close leaves the handler before process.exit: the
\* unhandledRejection listener logs it and the process goes on serving.
SignalCloseReturn(ok) ==
    /\ proc.state = "closing"
    /\ IF ok
       THEN /\ openBrowsers' = openBrowsers \ {proc.closing}
            /\ pages' = ClosedWithBrowser({proc.closing})
            /\ proc' = Exit("0")
       ELSE /\ proc' = [proc EXCEPT !.state = "serving", !.closing = 0]
            /\ UNCHANGED <<openBrowsers, pages>>
    /\ UNCHANGED <<rev, req, browser, launchCalls, nBrowsers, files, now,
                   translator, upload, wire>>

\* The requests of the lifecycle specification: url requests with default
\* settings.
UrlBodies == {b \in ValidBodies : b.type = "url" /\ b.settings = ""}

\* The steps of a url request whose engine calls all succeed.
StepsUrl(r) ==
    \/ At000(r, "launch") /\ LaunchBrowserReturn(r, TRUE)
    \/ At000(r, "newPage") /\ NewPageReturn000(r, TRUE)
    \/ At000(r, "setViewport") /\ SetViewportReturn(r, TRUE)
    \/ At000(r, "goto") /\ GotoReturn000(r, "ok")
    \/ At000(r, "pdf") /\ PdfReturn000(r, "ok", "ok")
    \/ At000(r, "finally") /\ Finally000(r)
    \/ At000(r, "close") /\ PageCloseReturn(r, TRUE)

(***************************************************************************)
(* SpecLife: part_000 from the start of the process to its exit, with      *)
(* concurrent url requests served in between and a signal at any time.     *)
(***************************************************************************)
InitLife ==
    /\ rev = "part_000"
    /\ req = [r \in Requests |-> NoReq]
    /\ browser = 0
    /\ launchCalls = 0
    /\ nBrowsers = 0
    /\ openBrowsers = {}
    /\ pages = << >>
    /\ files = << >>
    /\ now = 1
    /\ proc = Starting
    /\ translator = NoTranslation
    /\ upload = NoUpload
    /\ wire = NoWire

Serving == proc.state \in {"serving", "closing"}

NextLife ==
    \/ StartServer
    \/ \E ok \in BOOLEAN : TestLaunchReturn(ok)
    \/ \E ok \in BOOLEAN : TestCloseReturn(ok)
    \/ Signal
    \/ \E ok \in BOOLEAN : SignalCloseReturn(ok)
    \/ /\ Serving
       /\ UNCHANGED <<proc, translator, upload, wire>>
       /\ \E r \in Requests :
             \/ NextToArrive(r) /\ \E b \in UrlBodies : Convert000(r, b)
             \/ StepsUrl(r)

SpecLife == InitLife /\ [][NextLife]_vars

(***************************************************************************)
(* SpecTranslate: the translator of each revision applied to every         *)
(* settings object.                                                        *)
(***************************************************************************)
InitTranslate ==
    /\ rev \in Revisions
    /\ req = [r \in Requests |-> NoReq]
    /\ browser = 0
    /\ launchCalls = 0
    /\ nBrowsers = 0
    /\ openBrowsers = {}
    /\ pages = << >>
    /\ files = << >>
    /\ now = 1
    /\ proc = Listening
    /\ \E st \in TranslatorSettings :
          translator = [NoTranslation EXCEPT !.settings = st]
    /\ upload = NoUpload
    /\ wire = NoWire

\* "Apply Settings": the pdfOptions are built from the settings.
BuildPdfOptions ==
    /\ ~translator.built
    /\ translator' = [translator EXCEPT
          !.built = TRUE,
          !.pdfOptions = pdfOptionsOf(rev, translator.settings)]
    /\ UNCHANGED <<rev, req, browser, launchCalls, nBrowsers, openBrowsers,
                   pages, files, now, proc, upload, wire>>

NextTranslate == BuildPdfOptions

SpecTranslate == InitTranslate /\ [][NextTranslate]_vars

(***************************************************************************)
(* SpecUpload: a type=file request with any file parts goes through the    *)
(* upload middleware of the revision and, if it passes, enters the         *)
(* handler.                                                                *)
(***************************************************************************)
InitUpload ==
    /\ rev \in Revisions
    /\ req = [r \in Requests |-> NoReq]
    /\ browser = 0
    /\ launchCalls = 0
    /\ nBrowsers = 0
    /\ openBrowsers = {}
    /\ pages = << >>
    /\ files = << >>
    /\ now = 1
    /\ proc = Listening
    /\ translator = NoTranslation
    /\ \E parts \in Uploads :
          upload = [NoUpload EXCEPT !.parts = parts, !.stage = "received"]
    /\ wire = NoWire

\* upload.single('htmlFile') / upload.any(): the parts are parsed; an error
\* goes to the error-handling middleware, which answers.
Multer ==
    /\ upload.stage = "received"
    /\ LET res == IF rev = "part_000" THEN uploadSingle(upload.parts)
                  ELSE uploadAny(upload.parts)
       IN upload' =
            IF res.err # "none"
            THEN [upload EXCEPT !.stage = "rejected", !.error = res.err,
                                !.status = errorStatus(res.err)]
            ELSE [upload EXCEPT !.stage = "parsed", !.file = res.file]
    /\ UNCHANGED <<rev, req, browser, launchCalls, nBrowsers, openBrowsers,
                   pages, files, now, proc, translator, wire>>

\* The type=file request the handler is called with.
FileBody == [type |-> "file", url |-> NoUrl, settings |-> "",
             hasFile |-> upload.file # 0]

\* next(): the handler of the revision is entered.
EnterHandler ==
    /\ upload.stage = "parsed"
    /\ upload' = [upload EXCEPT !.stage = "handler"]
    /\ IF rev = "part_000" THEN Convert000(1, FileBody) ELSE Convert(1, FileBody)
    /\ UNCHANGED <<proc, translator, wire>>

NextUpload == Multer \/ EnterHandler

SpecUpload == InitUpload /\ [][NextUpload]_vars

(***************************************************************************)
(* SpecLength: the success response of each revision, for every text of    *)
(* the url and the page size (placeholder revision) and every buffer       *)
(* page.pdf returns (the others).                                          *)
(***************************************************************************)
InitLength ==
    /\ rev \in Revisions \cup {Placeholder}
    /\ req = [r \in Requests |-> NoReq]
    /\ browser = 0
    /\ launchCalls = 0
    /\ nBrowsers = 0
    /\ openBrowsers = {}
    /\ pages = << >>
    /\ files = << >>
    /\ now = 1
    /\ proc = Listening
    /\ translator = NoTranslation
    /\ upload = NoUpload
    /\ IF rev = Placeholder
       THEN \E tail \in Texts, size \in Texts :
               wire = [NoWire EXCEPT !.url = <<"h","t","t","p">> \o tail,
                                     !.pageSize = size]
       ELSE \E buf \in PdfBuffers : wire = [NoWire EXCEPT !.pdfBuffer = buf]

\* What the handler's headers and res.send put on the wire.
Written(headers, chunk) ==
    LET out == send(headers, chunk) IN
    [wire EXCEPT !.set = headers.contentLength, !.sent = out.sent,
                 !.contentLength = out.contentLength, !.bytes = out.bytes]

\* part_002, placeholder revision, type=url: the PDF text is built,
\* Content-Length is set to pdfContent.length and res.send(pdfContent).
SendPlaceholder ==
    /\ rev = Placeholder
    /\ ~wire.sent
    /\ LET pdfContent == generateSimplePDF(wire.url, wire.pageSize) IN
       wire' = Written([contentLength |-> length(pdfContent)],
                       [buffer |-> FALSE, data |-> pdfContent])
    /\ UNCHANGED <<rev, req, browser, launchCalls, nBrowsers, openBrowsers,
                   pages, files, now, proc, translator, upload>>

\* server.js, part_000, part_002: Content-Length is set to
\* pdfBuffer.length and res.send(pdfBuffer).
SendBuffer ==
    /\ rev \in Revisions
    /\ ~wire.sent
    /\ wire' = Written([contentLength |-> Len(wire.pdfBuffer)],
                       [buffer |-> TRUE, data |-> wire.pdfBuffer])
    /\ UNCHANGED <<rev, req, browser, launchCalls, nBrowsers, openBrowsers,
                   pages, files, now, proc, translator, upload>>

NextLength == SendPlaceholder \/ SendBuffer

SpecLength == InitLength /\ [][NextLength]_vars

(***************************************************************************)
(* SpecLive: Spec with every awaited call settling.  A call that was made  *)
(* returns, fails or is rejected at its timeout, and the event loop then   *)
(* resumes the handler that awaits it: no handler stays suspended for      *)
(* ever.                                                                   *)
(***************************************************************************)
\* The handler of request r is resumed.
Resume(r) ==
    /\ Steps(r) \/ Steps000(r, TRUE)
    /\ UNCHANGED <<proc, translator, upload, wire>>

SpecLive == Init /\ [][Next]_vars /\ \A r \in Requests : WF_vars(Resume(r))

(***************************************************************************)
(* The properties.                                                         *)
(***************************************************************************)
\* The session of a request: the browser it launched (server.js, part_002)
\* or the page it created (part_000); 0 while it has none.
Session(q) == IF rev = "part_000" THEN q.page ELSE q.browser

\* C1: a request that acquired a session (a browser in server.js and
\* part_002, a page in part_000) has close invoked on it exactly once by
\* the time its handler finishes, whatever step failed after the
\* acquisition; close is never invoked twice, and never without a session.
C1_CloseExactlyOnce ==
    \A r \in Requests :
        /\ req[r].closes <= 1
        /\ Session(req[r]) = 0 => req[r].closes = 0
        /\ (req[r].pc = "done" /\ Session(req[r]) # 0) => req[r].closes = 1

\* A request whose conversion failed after it acquired its session has
\* finished, with one close.
C1_Witness ==
    \E r \in Requests :
        /\ req[r].pc = "done"
        /\ Session(req[r]) # 0
        /\ req[r].status = 500
        /\ req[r].closes = 1

\* The url of a url request is not an HTTP/HTTPS url.
BadUrl(q) == q.type = "url" /\ ~IsHttpUrl(q.url)

\* C2: a url request whose url is not an HTTP/HTTPS url is turned down
\* before any rendering work: puppeteer.launch, launchBrowser and newPage
\* are never called for it, and the error it fails with is the invalid-URL
\* error.
C2_BadUrlNeverReachesEngine ==
    \A r \in Requests :
        BadUrl(req[r]) =>
            /\ req[r].pc \notin {"launch", "newPage"}
            /\ req[r].browser = 0
            /\ req[r].page = 0
            /\ req[r].error \in {"none", "InvalidUrlProvided"}

\* C3: in part_000 the shared browser is launched at most once, however
\* the requests interleave: puppeteer.launch is called once and at most
\* one instance exists.
C3_SharedBrowserLaunchedOnce ==
    rev = "part_000" =>
        /\ launchCalls <= 1
        /\ Cardinality(openBrowsers) <= 1

\* The session of request q is still open: its page (part_000) or its
\* browser (server.js, part_002) has not been closed.
SessionOpen(q) ==
    IF rev = "part_000" THEN pages[q.page].open ELSE q.browser \in openBrowsers

OwnFileExists(r) ==
    /\ req[r].tempFilePath \in DOMAIN files
    /\ files[req[r].tempFilePath] = r

\* C5 as stated: in part_000, when the handler of a file request that chose
\* a temp-file path has finished, the file it wrote no longer exists.
C5_TempFileGoneAtFinish ==
    \A r \in Requests :
        (rev = "part_000" /\ req[r].pc = "done" /\ req[r].tempFilePath # 0)
            => ~OwnFileExists(r)

\* C5, amended: in part_000, a handler that chose a temp-file path calls
\* fs.unlink on it exactly once before it finishes, on every exit path; the
\* file it wrote is gone when it finishes unless that unlink call failed, in
\* which case the failure was logged and the file is left behind.
C5_TempFileUnlinkedOnce ==
    \A r \in Requests :
        /\ req[r].unlinks <= 1
        /\ (rev = "part_000" /\ req[r].pc = "done" /\ req[r].tempFilePath # 0)
              => /\ req[r].unlinks = 1
                 /\ OwnFileExists(r) => "unlink" \in req[r].logged

\* A file request has finished on the exit path where page.close failed:
\* its PDF was sent, the close failure logged, and its temp file is gone.
C5_Witness ==
    \E r \in Requests :
        /\ rev = "part_000"
        /\ req[r].pc = "done"
        /\ req[r].tempFilePath # 0
        /\ req[r].sent = "pdf"
        /\ "close" \in req[r].logged
        /\ req[r].tempFilePath \notin DOMAIN files

\* C6: in part_000, two file requests in flight at the same time have
\* distinct temp-file paths.
C6_TempPathsDistinct ==
    \A r, s \in Requests :
        (/\ r # s
         /\ InFlight(r) /\ InFlight(s)
         /\ req[r].tempFilePath # 0 /\ req[s].tempFilePath # 0)
            => req[r].tempFilePath # req[s].tempFilePath

\* C7: a request whose settings text is not valid JSON does not fail
\* because of it: the parse error never reaches the catch block.
C7_MalformedSettingsTolerated ==
    \A r \in Requests :
        ~JSONParse(OrEmptyObject(req[r].settings)).ok
            => req[r].error # "SyntaxError"

\* C8: a request gets exactly one response: the handler never writes a
\* JSON error after the response has started, and it does not finish
\* without having answered.
C8_ExactlyOneResponse ==
    \A r \in Requests :
        /\ req[r].lateWrites = 0
        /\ req[r].pc = "done" => req[r].sent # "none"

\* The request fails validation: the type is missing or unsupported, the
\* url of a url request is missing or not HTTP/HTTPS, or a file request
\* has no upload.
ValidationFailure(q) ==
    \/ q.type \notin {"url", "file"}
    \/ BadUrl(q)
    \/ q.type = "file" /\ ~q.hasFile

ValidationErrors == {"InvalidUrlProvided", "NoFileUploaded", "InvalidType"}

\* C9: a request that fails validation is answered with status 400 (unless
\* the engine or the socket failed first), and status 500 never carries a
\* validation error.
C9_ValidationFailuresGet400 ==
    \A r \in Requests :
        (InFlight(r) /\ req[r].sent # "none") =>
            /\ (ValidationFailure(req[r])
                    /\ req[r].error \in ValidationErrors \cup {"none"})
                  => req[r].status = 400
            /\ req[r].status = 500 => req[r].error \notin ValidationErrors

\* C10: in part_000, under any interleaving, the page a request holds (the
\* one it navigates, renders and closes) is the page that request created,
\* and no two requests hold the same page.
C10_PageOwnedByCreator ==
    \A r \in Requests :
        (rev = "part_000" /\ req[r].page # 0) =>
            /\ req[r].page \in DOMAIN pages
            /\ pages[req[r].page].creator = r
            /\ \A s \in Requests \ {r} : req[s].page # req[r].page

\* Two requests are in flight at the same time, each with a page loaded.
C10_Witness ==
    \E r, s \in Requests :
        /\ r # s
        /\ req[r].pc = "pdf" /\ req[s].pc = "pdf"
        /\ req[r].page # 0 /\ req[s].page # 0

\* C11: a failure of a release step is logged only: when close was
\* rejected, the rejection was logged by the handler, the remaining release
\* step (fs.unlink of a chosen temp path) was still invoked, and no
\* exception left the handler because of it (the only exception that may
\* leave it is the one of a late response write).
C11_ReleaseFailureOnlyLogged ==
    \A r \in Requests :
        (/\ req[r].pc = "done"
         /\ Session(req[r]) # 0
         /\ req[r].closes = 1
         /\ SessionOpen(req[r]))
            => /\ "close" \in req[r].logged
               /\ req[r].rejected => req[r].lateWrites > 0
               /\ req[r].tempFilePath # 0 => req[r].unlinks = 1

\* C12: in part_000, when the process exits on SIGTERM or SIGINT, no browser
\* instance launched by launchBrowser is left open, whenever the signal
\* arrived.
C12_NoBrowserLeftAtExit ==
    (proc.state = "exited" /\ proc.code = "0")
        => openBrowsers \ {proc.testBrowser} = {}

\* The puppeteer.launch calls of launchBrowser that were rejected: the
\* calls made, less those pending and those that returned an instance.
LaunchFailures ==
    launchCalls - Cardinality({r \in Requests : req[r].pc = "launch"})
                - Cardinality((1..nBrowsers) \ {proc.testBrowser})

\* C13: in part_000, once a launch inside launchBrowser has failed, no
\* request issues another puppeteer.launch.
C13_NoLaunchAfterLaunchFailure ==
    (rev = "part_000" /\ LaunchFailures >= 1)
        => \A r \in Requests : req[r].pc # "launch"

\* C14: the translator gives all four sides one margin value, gives zero
\* for margins = none, and gives an absent or unrecognized margins value
\* the value it gives to small, in every revision.
C14_MarginsUniformDefaultSmall ==
    translator.built =>
        LET m == translator.pdfOptions.margin
            st == translator.settings
        IN  /\ m.top = m.right /\ m.right = m.bottom /\ m.bottom = m.left
            /\ st.margins = "none" => m.top \in {"0", "0px"}
            /\ st.margins \notin DOMAIN marginMap
                  => m = pdfOptionsOf(rev, [st EXCEPT !.margins = "small"]).margin

\* The paper the renderer prints on: the named format, or the named size
\* whose width and height the options carry.
Paper(o) ==
    IF o.format # "undefined" THEN o.format
    ELSE CHOOSE n \in DOMAIN pageSizeMap :
            pageSizeMap[n] = [width |-> o.width, height |-> o.height]

\* C15: for a pageSize that is not A4, Letter, Legal or Tabloid (absent,
\* empty or any other string) the options built are those of A4: the
\* renderer is never given the unrecognized name.
C15_UnknownPageSizeIsA4 ==
    (translator.built /\ translator.settings.pageSize \notin DOMAIN pageSizeMap)
        => Paper(translator.pdfOptions) = "A4"

\* C16: the success response is sent only for a non-empty buffer: a request
\* whose page.pdf returned an empty buffer is never answered with the PDF
\* response.
C16_SuccessOnlyWithBytes ==
    \A r \in Requests :
        req[r].sent = "pdf" => req[r].pdfBuffer = "ok"

\* C17: no error response body carries the text of the exception: the
\* message of the error caught is never copied into the body.
C17_NoInternalTextInBody ==
    \A r \in Requests :
        req[r].sent = "json" =>
            \A e \in Errors : ~includes(req[r].body.details, message(e))

\* C18: a type=file request with one or more file parts, under any field
\* names, is never turned down for a field name or for the number of its
\* files, and the handler is given exactly the first part.
C18_FirstFilePartAnyField ==
    upload.parts # << >> =>
        /\ upload.error \notin MulterErrors
        /\ upload.stage \in {"parsed", "handler"} => upload.file = 1

\* C19: an upload whose content type and file name do not indicate HTML is
\* answered with status 400 by the upload stage, and the handler is never
\* entered for it, so that no session is acquired.
C19_NonHtmlUploadRejected ==
    (/\ upload.parts # << >>
     /\ ~fileFilter(upload.parts[1])
     /\ upload.stage \notin {"none", "received"})
        => /\ upload.stage = "rejected"
           /\ upload.status = 400
           /\ req[1].pc = "idle"

\* C20: the message of an error response is chosen by the category of the
\* failure: a DNS failure, a refused connection and a timeout each get
\* their own message, and the generic message is given to none of them.
C20_MessageByCategory ==
    \A r \in Requests :
        (req[r].sent = "json" /\ req[r].status = 500 /\ req[r].error # "none") =>
            /\ req[r].error = "NameNotResolved" =>
                  req[r].body.error =
                      "Website not found. Please check the URL and try again."
            /\ req[r].error = "ConnectionRefused" =>
                  req[r].body.error =
                      "Cannot connect to website. The site may be down or blocking access."
            /\ req[r].error = "NavigationTimeout" =>
                  req[r].body.error =
                      "Conversion timed out. The website may be too large or loading slowly."

\* C22: the printBackground option given to the renderer is the boolean
\* true exactly when settings.includeBackground is the boolean true, and
\* the boolean false for every other value, in every revision.
C22_PrintBackgroundOnlyForTrue ==
    translator.built =>
        translator.pdfOptions.printBackground =
            IF translator.settings.includeBackground = "true"
            THEN "true" ELSE "false"

GotoByUrl(r) ==
    /\ req[r].pc = "goto"
    /\ rev = "part_000" => req[r].tempFilePath = 0

\* The handler of request r holds or awaits a session, or is loading or
\* rendering in it.
InSession(r) ==
    req[r].pc \in {"launch", "newPage", "setViewport", "mkdir", "writeFile",
                   "goto", "setContent", "waitForTimeout", "pdf"}

\* C24: the request's url is navigated to only when type is exactly "url";
\* in part_000 a request whose type is another non-empty value never
\* acquires a session and never reaches page.goto.
C24_LoadOnlyForKnownType ==
    \A r \in Requests :
        /\ GotoByUrl(r) => req[r].type = "url"
        /\ (rev = "part_000" /\ InFlight(r)
                /\ req[r].type \notin {"", "url", "file"}) =>
              ~InSession(r) /\ req[r].browser = 0 /\ req[r].page = 0

\* C25: the steps of one request come in a fixed order.  The input is
\* parsed and validated before the session is acquired: no request that
\* fails validation holds or awaits a session, and no validation error is
\* thrown by a handler that holds one.  The session is acquired before the
\* content is loaded; page.pdf is called only once the content load of the
\* same request has completed; the success response is sent only once
\* page.pdf has returned a buffer.
C25_LifecycleOrder ==
    \A r \in Requests :
        /\ (InFlight(r) /\ ValidationFailure(req[r])) =>
              ~InSession(r) /\ req[r].browser = 0 /\ req[r].page = 0
        /\ (InFlight(r) /\ req[r].error \in ValidationErrors) =>
              req[r].browser = 0 /\ req[r].page = 0
        /\ req[r].pc \in {"goto", "setContent"} =>
              req[r].browser # 0 /\ req[r].page # 0
        /\ req[r].pc = "pdf" =>
              req[r].page # 0 /\ pages[req[r].page].content # 0
        /\ req[r].sent = "pdf" => req[r].pdfBuffer \in Buffers

\* The temp files a step deletes and the pages it closes.
FilesDeleted == DOMAIN files \ DOMAIN files'
PagesClosed == {p \in DOMAIN pages : pages[p].open /\ ~pages'[p].open}

\* The handler of request r leaves its finally block's fs.unlink, or its
\* page.close.
UnlinkStep(r) == req[r].pc = "unlink" /\ req'[r].pc # "unlink"
CloseStep(r) == req[r].pc = "close" /\ req'[r].pc # "close"

\* C26: in part_000 every step of a request handler leaves the shared
\* engine and the other requests untouched: the only file it deletes is the
\* temp file the request wrote itself, the only page it closes is the page
\* the request created and holds, no instance of the browser is closed, and
\* the module-level `browser`, once set, is never assigned again.
C26_HandlerTouchesOnlyItsOwn ==
    [][rev = "part_000" =>
        /\ \A r \in Requests :
              UnlinkStep(r) => \A p \in FilesDeleted : files[p] = r
        /\ \A r \in Requests :
              CloseStep(r) =>
                  \A p \in PagesClosed :
                      p = req[r].page /\ pages[p].creator = r
        /\ (\A r \in Requests : ~UnlinkStep(r)) => FilesDeleted = {}
        /\ (\A r \in Requests : ~CloseStep(r)) => PagesClosed = {}
        /\ openBrowsers \subseteq openBrowsers'
        /\ browser # 0 => browser' = browser]_vars

\* The session request r acquired, if any, is closed.
Released(r) == Session(req[r]) # 0 => ~SessionOpen(req[r])

\* C23: every request that arrived eventually terminates with a response
\* sent and its session released, given that every call the handler awaits
\* completes, fails or is rejected at its timeout.
C23_TerminatesResponded ==
    \A r \in Requests :
        req[r].pc # "idle" ~>
            (req[r].pc = "done" /\ req[r].sent # "none" /\ Released(r))

====
